---- MODULE Spec2Model ----
(***************************************************************************)
(* Model of the two workflow generator scripts of the hierarchical sample  *)
(* workflow: main_workflow_generator.py (class PipelineWorkflow and its    *)
(* __main__ block) and workflow_generator.py (generate_workflow and its    *)
(* __main__ block).  A behaviour is one run of one script; pc is the       *)
(* position of the run in the script.  The Pegasus API objects (Properties,*)
(* SiteCatalog, TransformationCatalog, ReplicaCatalog, Workflow, Job,      *)
(* SubWorkflow) are modelled by the state the scripts put into them and by *)
(* the files their write() calls produce.                                  *)
(***************************************************************************)
EXTENDS Integers, Sequences, FiniteSets, TLC

VARIABLES script, args, curlBound, pc, err, dagfile,
          props, sc, tc, inner_tc, rc, inner_rc, wf, wf2,
          log, propsFiles, wfFiles, planner

vars == <<script, args, curlBound, pc, err, dagfile,
          props, sc, tc, inner_tc, rc, inner_rc, wf, wf2,
          log, propsFiles, wfFiles, planner>>

(* ---------------------------- inputs ----------------------------------- *)

NumExtraSites == 1

ExtraSiteNames == <<"siteA", "siteB", "siteC">>

\* values of -e/--execution_site_name: the default, the name of the local
\* site, and names of other sites
ExecSiteNames ==
    {"condorpool", "local"} \cup {ExtraSiteNames[i] : i \in 1..NumExtraSites}

\* values of -o/--output
OutputNames == {"workflow.yml", "out.yml"}

\* the parsed command line
ArgSpace ==
    [execution_site_name : ExecSiteNames,
     skip_sites_catalog  : BOOLEAN,
     output              : OutputNames]

(* ------------------------ file names and keys -------------------------- *)

\* default targets of the write() calls of the Pegasus API
PROPS_FILE == "pegasus.properties"
SITES_FILE == "sites.yml"
TC_FILE == "transformations.yml"
RC_FILE == "replicas.yml"
WORKFLOW_FILE == "workflow.yml"

INNER_PROPS_FILE == "inner_diamond_workflow.pegasus.properties"
INNER_TC_FILE == "inner_diamond_workflow_tc.yml"
INNER_RC_FILE == "inner_diamond_workflow_rc.yml"
INNER_WORKFLOW_FILE == "inner_diamond_workflow.yml"

TC_KEY == "pegasus.catalog.transformation.file"
RC_KEY == "pegasus.catalog.replica.file"

\* the properties the scripts set for the inner diamond workflow
InnerOverrides == {<<TC_KEY, INNER_TC_FILE>>, <<RC_KEY, INNER_RC_FILE>>}

(* --------------------------- API objects ------------------------------- *)

\* Transformation(name, site, pfn, is_stageable)
Transformation(name, site, pfn, stageable) ==
    [name |-> name, site |-> site, pfn |-> pfn, is_stageable |-> stageable]

\* a node of a workflow: Job(...) or SubWorkflow(...), after add_args,
\* add_inputs, add_outputs, set_stdout (stdout is also an output of the job)
Node(id, type, transformation, nargs, inputs, outputs, stdout) ==
    [id |-> id, type |-> type, transformation |-> transformation,
     args |-> nargs, inputs |-> inputs, outputs |-> outputs,
     stdout |-> stdout]

NoProps == [exists |-> FALSE, kv |-> {}]
NoCatalog == [exists |-> FALSE, entries |-> {}]
NoWorkflow == [exists |-> FALSE, name |-> "", jobs |-> {}, edges |-> {}]

\* Workflow(name)
Workflow(name) == [exists |-> TRUE, name |-> name, jobs |-> {}, edges |-> {}]

\* the edge added the wrong way round
add_dependency_reversed(w, parent, child) ==
    [w EXCEPT !.edges = @ \cup {<<child, parent>>}]

\* Workflow.add_dependency(parent, children=[child])
add_dependency(w, parent, child) ==
    [w EXCEPT !.edges = @ \cup {<<parent, child>>}]

\* Workflow.write() infers, before rendering, an edge from every job that
\* produces a file to every job that consumes it
InferDependencies(w) ==
    [w EXCEPT !.edges = @ \cup
        {e \in {<<p.id, c.id>> : p \in w.jobs, c \in w.jobs} :
            \E p \in w.jobs, c \in w.jobs :
                /\ e = <<p.id, c.id>>
                /\ p.id # c.id
                /\ p.outputs \cap c.inputs # {}}]

\* one write() call: the artifact written and the stage it belongs to
W(file, kind) == [file |-> file, kind |-> kind]

Written == {log[i].file : i \in 1..Len(log)}

LogWrite(file, kind) == log' = Append(log, W(file, kind))

(* ------------------ main_workflow_generator.py: contents ---------------- *)

\* create_sites_catalog: the sites handed to SiteCatalog.add_sites, in order
Sites(exec_site_name) == <<"local", exec_site_name>>

\* SiteCatalog.add_sites(s1, s2): adds the sites in order and raises
\* DuplicateError at the first name that is already in the catalog
add_sites(sites) ==
    IF sites[1] = sites[2]
    THEN [exists |-> TRUE, entries |-> {sites[1]}]
    ELSE [exists |-> TRUE, entries |-> {sites[1], sites[2]}]

add_sites_raises(sites) == sites[1] = sites[2]

\* create_transformation_catalog: the outer catalog
MainTransformations(exec_site_name) ==
    {Transformation("curl", exec_site_name, "/usr/bin/curl", FALSE),
     Transformation("wc", exec_site_name, "/usr/bin/wc", FALSE),
     Transformation("generate_inner_diamond_workflow", "condorpool",
                    "generate_inner_diamond_workflow.py", TRUE)}

\* create_transformation_catalog: the catalog of the inner diamond workflow
MainInnerTransformations ==
    {Transformation("preprocess", "local", "/usr/bin/pegasus-keg", TRUE),
     Transformation("findrange", "local", "/usr/bin/pegasus-keg", TRUE),
     Transformation("analyze", "local", "/usr/bin/pegasus-keg", TRUE)}

\* create_workflow: replica catalog of the inner diamond workflow
MainInnerReplicas == {[site |-> "local", lfn |-> "f.a"]}

\* create_workflow: replica catalog of the outer workflow
MainReplicas ==
    {[site |-> "local", lfn |-> INNER_PROPS_FILE],
     [site |-> "local", lfn |-> INNER_RC_FILE],
     [site |-> "local", lfn |-> INNER_TC_FILE],
     [site |-> "local", lfn |-> SITES_FILE],
     [site |-> "local", lfn |-> "inner_sleep_workflow.yml"]}

\* ids: add_jobs numbers the jobs that were created without an id
MainCurlJob ==
    Node("ID0000001", "job", "curl",
         <<"-o", "pegasus.html", "http://pegasus.isi.edu">>,
         {}, {"pegasus.html"}, "")

MainWcJob ==
    Node("ID0000002", "job", "wc", <<"-l", "pegasus.html">>,
         {"pegasus.html"}, {"count.txt"}, "count.txt")

MainGenerateJob ==
    Node("ID0000003", "job", "generate_inner_diamond_workflow", <<>>,
         {}, {INNER_WORKFLOW_FILE}, "")

SubWorkflowArgs ==
    <<"--conf", INNER_PROPS_FILE, "--output-sites", "local", "-vvv",
      "--basename", "inner">>

\* SubWorkflow(file=diamond_wf_file, is_planned=False): the definition file
\* is an input of the node; add_inputs adds the four catalog files
MainSubWorkflowInputs ==
    {INNER_WORKFLOW_FILE} \cup
    {INNER_PROPS_FILE, INNER_RC_FILE, INNER_TC_FILE, SITES_FILE}

MainSubWorkflow ==
    Node("diamond_subworkflow", "pegasusWorkflow", "",
         SubWorkflowArgs, MainSubWorkflowInputs, {}, "")

(* -------------------- workflow_generator.py: contents ------------------- *)

\* generate_workflow: the outer transformation catalog
GenTransformations ==
    {Transformation("wc", "condorpool", "/usr/bin/wc", FALSE),
     Transformation("curl", "condorpool", "/usr/bin/curl", FALSE)}

\* generate_workflow: the catalog of the inner diamond workflow
GenInnerTransformations ==
    {Transformation("preprocess", "condorpool", "/usr/bin/pegasus-keg", TRUE),
     Transformation("findrange", "condorpool", "/usr/bin/pegasus-keg", TRUE),
     Transformation("analyze", "condorpool", "/usr/bin/pegasus-keg", TRUE)}

\* the outer replica catalog without the entry of the definition file
GenReplicas_no_definition ==
    {[site |-> "local", lfn |-> INNER_PROPS_FILE],
     [site |-> "local", lfn |-> INNER_TC_FILE],
     [site |-> "local", lfn |-> SITES_FILE]}

\* generate_workflow: replica catalog of the outer workflow
GenReplicas ==
    {[site |-> "local", lfn |-> INNER_PROPS_FILE],
     [site |-> "local", lfn |-> INNER_TC_FILE],
     [site |-> "local", lfn |-> INNER_WORKFLOW_FILE],
     [site |-> "local", lfn |-> SITES_FILE]}

\* the blackdiamond jobs with analyze reading f.c1 only
InnerJobs_analyze_one_input ==
    {Node("ID0000001", "job", "preprocess",
          <<"-a", "preprocess", "-T", "20", "-i", "pegasus.html",
            "-o", "f.b1", "f.b2">>,
          {"pegasus.html"}, {"f.b1", "f.b2"}, ""),
     Node("ID0000002", "job", "findrange",
          <<"-a", "findrange", "-T", "20", "-i", "f.b1", "-o", "f.c1">>,
          {"f.b1"}, {"f.c1"}, ""),
     Node("ID0000003", "job", "findrange",
          <<"-a", "findrange", "-T", "20", "-i", "f.b2", "-o", "f.c2">>,
          {"f.b2"}, {"f.c2"}, ""),
     Node("ID0000004", "job", "analyze",
          <<"-a", "analyze", "-T", "20", "-i", "f.c1", "f.c2", "-o", "f.d">>,
          {"f.c1"}, {"f.d"}, "")}

\* generate_workflow: the four jobs of the blackdiamond workflow wf2
InnerJobs ==
    {Node("ID0000001", "job", "preprocess",
          <<"-a", "preprocess", "-T", "20", "-i", "pegasus.html",
            "-o", "f.b1", "f.b2">>,
          {"pegasus.html"}, {"f.b1", "f.b2"}, ""),
     Node("ID0000002", "job", "findrange",
          <<"-a", "findrange", "-T", "20", "-i", "f.b1", "-o", "f.c1">>,
          {"f.b1"}, {"f.c1"}, ""),
     Node("ID0000003", "job", "findrange",
          <<"-a", "findrange", "-T", "20", "-i", "f.b2", "-o", "f.c2">>,
          {"f.b2"}, {"f.c2"}, ""),
     Node("ID0000004", "job", "analyze",
          <<"-a", "analyze", "-T", "20", "-i", "f.c1", "f.c2", "-o", "f.d">>,
          {"f.c1", "f.c2"}, {"f.d"}, "")}

GenCurlJob ==
    Node("ID0000001", "job", "curl",
         <<"-o", "pegasus.html", "http://pegasus.isi.edu">>,
         {}, {"pegasus.html"}, "")

\* SubWorkflow(file="inner_diamond_workflow.yml", is_planned=False): the
\* definition file is an input of the node; add_inputs adds four more files
GenSubWorkflowInputs ==
    {INNER_WORKFLOW_FILE} \cup
    {INNER_PROPS_FILE, INNER_TC_FILE, SITES_FILE, "pegasus.html"}

GenSubWorkflow ==
    Node("diamond_subworkflow", "pegasusWorkflow", "",
         SubWorkflowArgs, GenSubWorkflowInputs, {"f.d"}, "")

GenWcJob ==
    Node("ID0000002", "job", "wc", <<"-l", "f.d">>,
         {"f.d"}, {"count.txt"}, "count.txt")

(* ------------------------------ Init ------------------------------------ *)

\* the state when the __main__ block of either script has parsed its
\* command line.  curlBound: whether the global name curl that
\* create_workflow reads is bound when the run gets there; the module binds
\* no such name itself, so it is bound only if the star import of the
\* Pegasus API binds it
Init ==
    /\ script \in {"main", "gen"}
    /\ args \in ArgSpace
    /\ curlBound \in (IF script = "main" THEN BOOLEAN ELSE {FALSE})
    /\ pc = (IF script = "main" THEN "m_init" ELSE "g_props")
    /\ err = "none"
    /\ dagfile = ""
    /\ props = NoProps
    /\ sc = NoCatalog
    /\ tc = NoCatalog
    /\ inner_tc = NoCatalog
    /\ rc = NoCatalog
    /\ inner_rc = NoCatalog
    /\ wf = NoWorkflow
    /\ wf2 = NoWorkflow
    /\ log = <<>>
    /\ propsFiles = [f \in {PROPS_FILE, INNER_PROPS_FILE} |-> {}]
    /\ wfFiles = [f \in {WORKFLOW_FILE, INNER_WORKFLOW_FILE} |-> NoWorkflow]
    /\ planner = [invoked |-> FALSE, submit |-> FALSE]

Abort(e) == pc' = "aborted" /\ err' = e

(* ----------------- main_workflow_generator.py: the run ------------------ *)

\* workflow = PipelineWorkflow(args.output)
PipelineWorkflow_init ==
    /\ pc = "m_init"
    /\ dagfile' = args.output
    /\ pc' = "m_sites"
    /\ UNCHANGED <<script, args, curlBound, err, props, sc, tc, inner_tc, rc,
                   inner_rc, wf, wf2, log, propsFiles, wfFiles, planner>>

\* if not args.skip_sites_catalog: workflow.create_sites_catalog(name)
create_sites_catalog ==
    /\ pc = "m_sites"
    /\ ~args.skip_sites_catalog
    /\ sc' = add_sites(Sites(args.execution_site_name))
    /\ IF add_sites_raises(Sites(args.execution_site_name))
       THEN Abort("DuplicateError")
       ELSE pc' = "m_props" /\ err' = err
    /\ UNCHANGED <<script, args, curlBound, dagfile, props, tc, inner_tc, rc,
                   inner_rc, wf, wf2, log, propsFiles, wfFiles, planner>>

\* args.skip_sites_catalog: create_sites_catalog is not called
skip_sites_catalog ==
    /\ pc = "m_sites"
    /\ args.skip_sites_catalog
    /\ pc' = "m_props"
    /\ UNCHANGED <<script, args, curlBound, err, dagfile, props, sc, tc,
                   inner_tc, rc, inner_rc, wf, wf2, log, propsFiles, wfFiles,
                   planner>>

\* create_pegasus_properties, first half: pegasus.mode, props.write()
create_pegasus_properties_outer ==
    /\ pc = "m_props"
    /\ props' = [exists |-> TRUE, kv |-> {<<"pegasus.mode", "development">>}]
    /\ propsFiles' = [propsFiles EXCEPT ![PROPS_FILE] = props'.kv]
    /\ LogWrite(PROPS_FILE, "props_outer")
    /\ pc' = "m_props_inner"
    /\ UNCHANGED <<script, args, curlBound, err, dagfile, sc, tc, inner_tc,
                   rc, inner_rc, wf, wf2, wfFiles, planner>>

\* create_pegasus_properties, second half: the two inner overrides,
\* props.write("inner_diamond_workflow.pegasus.properties")
create_pegasus_properties_inner ==
    /\ pc = "m_props_inner"
    /\ props' = [props EXCEPT !.kv = @ \cup InnerOverrides]
    /\ propsFiles' = [propsFiles EXCEPT ![INNER_PROPS_FILE] = props'.kv]
    /\ LogWrite(INNER_PROPS_FILE, "props_inner")
    /\ pc' = "m_tc"
    /\ UNCHANGED <<script, args, curlBound, err, dagfile, sc, tc, inner_tc,
                   rc, inner_rc, wf, wf2, wfFiles, planner>>

\* create_transformation_catalog: builds self.tc, builds and writes the
\* inner catalog
create_transformation_catalog ==
    /\ pc = "m_tc"
    /\ tc' = [exists |-> TRUE,
              entries |-> MainTransformations(args.execution_site_name)]
    /\ inner_tc' = [exists |-> TRUE, entries |-> MainInnerTransformations]
    /\ LogWrite(INNER_TC_FILE, "tc")
    /\ pc' = "m_inner_rc"
    /\ UNCHANGED <<script, args, curlBound, err, dagfile, props, sc, rc,
                   inner_rc, wf, wf2, propsFiles, wfFiles, planner>>

\* create_workflow: the sample input f.a, the replica catalog of the inner
\* workflow and its write
create_workflow_inner_rc ==
    /\ pc = "m_inner_rc"
    /\ inner_rc' = [exists |-> TRUE, entries |-> MainInnerReplicas]
    /\ log' = Append(Append(log, W("f.a", "data")), W(INNER_RC_FILE, "rc"))
    /\ pc' = "m_rc"
    /\ UNCHANGED <<script, args, curlBound, err, dagfile, props, sc, tc,
                   inner_tc, rc, wf, wf2, propsFiles, wfFiles, planner>>

\* create_workflow: the replica catalog of the outer workflow, rc.write()
create_workflow_rc ==
    /\ pc = "m_rc"
    /\ rc' = [exists |-> TRUE, entries |-> MainReplicas]
    /\ LogWrite(RC_FILE, "rc")
    /\ pc' = "m_curl_job"
    /\ UNCHANGED <<script, args, curlBound, err, dagfile, props, sc, tc,
                   inner_tc, inner_rc, wf, wf2, propsFiles, wfFiles, planner>>

\* create_workflow: self.wf = Workflow(self.wf_name), then Job(curl), which
\* reads the global name curl and raises NameError when it is not bound
create_workflow_curl_job ==
    /\ pc = "m_curl_job"
    /\ wf' = Workflow("hierarchical")
    /\ IF curlBound
       THEN pc' = "m_add_jobs" /\ err' = err
       ELSE Abort("NameError")
    /\ UNCHANGED <<script, args, curlBound, dagfile, props, sc, tc, inner_tc,
                   rc, inner_rc, wf2, log, propsFiles, wfFiles, planner>>

\* create_workflow: the remaining jobs and self.wf.add_jobs(...)
create_workflow_add_jobs ==
    /\ pc = "m_add_jobs"
    /\ wf' = [wf EXCEPT !.jobs = {MainCurlJob, MainWcJob, MainGenerateJob,
                                  MainSubWorkflow}]
    /\ pc' = "m_add_dependency"
    /\ UNCHANGED <<script, args, curlBound, err, dagfile, props, sc, tc,
                   inner_tc, rc, inner_rc, wf2, log, propsFiles, wfFiles,
                   planner>>

\* create_workflow: self.wf.add_dependency(generate_diamond_wf_job,
\* children=[diamond_wf_job])
create_workflow_add_dependency ==
    /\ pc = "m_add_dependency"
    /\ wf' = add_dependency(wf, MainGenerateJob.id, MainSubWorkflow.id)
    /\ pc' = "m_write_sc"
    /\ UNCHANGED <<script, args, curlBound, err, dagfile, props, sc, tc,
                   inner_tc, rc, inner_rc, wf2, log, propsFiles, wfFiles,
                   planner>>

\* write with the test of self.sc inverted
write_sc_inverted ==
    /\ pc = "m_write_sc"
    /\ IF ~sc.exists THEN LogWrite(SITES_FILE, "sites") ELSE log' = log
    /\ pc' = "m_write_props"
    /\ UNCHANGED <<script, args, curlBound, err, dagfile, props, sc, tc,
                   inner_tc, rc, inner_rc, wf, wf2, propsFiles, wfFiles,
                   planner>>

\* write: if not self.sc is None: self.sc.write()
write_sc ==
    /\ pc = "m_write_sc"
    /\ IF sc.exists THEN LogWrite(SITES_FILE, "sites") ELSE log' = log
    /\ pc' = "m_write_props"
    /\ UNCHANGED <<script, args, curlBound, err, dagfile, props, sc, tc,
                   inner_tc, rc, inner_rc, wf, wf2, propsFiles, wfFiles,
                   planner>>

\* write: self.props.write()
write_props ==
    /\ pc = "m_write_props"
    /\ propsFiles' = [propsFiles EXCEPT ![PROPS_FILE] = props.kv]
    /\ LogWrite(PROPS_FILE, "props_outer")
    /\ pc' = "m_write_tc"
    /\ UNCHANGED <<script, args, curlBound, err, dagfile, props, sc, tc,
                   inner_tc, rc, inner_rc, wf, wf2, wfFiles, planner>>

\* write: self.tc.write()
write_tc ==
    /\ pc = "m_write_tc"
    /\ LogWrite(TC_FILE, "tc")
    /\ pc' = "m_write_wf"
    /\ UNCHANGED <<script, args, curlBound, err, dagfile, props, sc, tc,
                   inner_tc, rc, inner_rc, wf, wf2, propsFiles, wfFiles,
                   planner>>

\* write: self.wf.write()
write_wf ==
    /\ pc = "m_write_wf"
    /\ wf' = InferDependencies(wf)
    /\ wfFiles' = [wfFiles EXCEPT ![WORKFLOW_FILE] = wf']
    /\ LogWrite(WORKFLOW_FILE, "wf")
    /\ pc' = "m_plan"
    /\ UNCHANGED <<script, args, curlBound, err, dagfile, props, sc, tc,
                   inner_tc, rc, inner_rc, wf2, propsFiles, planner>>

\* write: self.wf.plan(submit=True)
write_plan ==
    /\ pc = "m_plan"
    /\ planner' = [invoked |-> TRUE, submit |-> TRUE]
    /\ pc' = "done"
    /\ UNCHANGED <<script, args, curlBound, err, dagfile, props, sc, tc,
                   inner_tc, rc, inner_rc, wf, wf2, log, propsFiles, wfFiles>>

(* -------------------- workflow_generator.py: the run -------------------- *)

\* generate_workflow: props = Properties(); props.write()
generate_workflow_props ==
    /\ pc = "g_props"
    /\ props' = [exists |-> TRUE, kv |-> {}]
    /\ propsFiles' = [propsFiles EXCEPT ![PROPS_FILE] = props'.kv]
    /\ LogWrite(PROPS_FILE, "props_outer")
    /\ pc' = "g_props_inner"
    /\ UNCHANGED <<script, args, curlBound, err, dagfile, sc, tc, inner_tc,
                   rc, inner_rc, wf, wf2, wfFiles, planner>>

\* generate_workflow: the two inner overrides and the nested properties file
generate_workflow_props_inner ==
    /\ pc = "g_props_inner"
    /\ props' = [props EXCEPT !.kv = @ \cup InnerOverrides]
    /\ propsFiles' = [propsFiles EXCEPT ![INNER_PROPS_FILE] = props'.kv]
    /\ LogWrite(INNER_PROPS_FILE, "props_inner")
    /\ pc' = "g_sites"
    /\ UNCHANGED <<script, args, curlBound, err, dagfile, sc, tc, inner_tc,
                   rc, inner_rc, wf, wf2, wfFiles, planner>>

\* generate_workflow: sc.add_sites(local_site, exec_site); sc.write()
generate_workflow_sites ==
    /\ pc = "g_sites"
    /\ sc' = add_sites(Sites(args.execution_site_name))
    /\ IF add_sites_raises(Sites(args.execution_site_name))
       THEN Abort("DuplicateError") /\ log' = log
       ELSE pc' = "g_tc" /\ err' = err /\ LogWrite(SITES_FILE, "sites")
    /\ UNCHANGED <<script, args, curlBound, dagfile, props, tc, inner_tc, rc,
                   inner_rc, wf, wf2, propsFiles, wfFiles, planner>>

\* generate_workflow: tc.add_transformations(wc, curl); tc.write()
generate_workflow_tc ==
    /\ pc = "g_tc"
    /\ tc' = [exists |-> TRUE, entries |-> GenTransformations]
    /\ LogWrite(TC_FILE, "tc")
    /\ pc' = "g_inner_tc"
    /\ UNCHANGED <<script, args, curlBound, err, dagfile, props, sc, inner_tc,
                   rc, inner_rc, wf, wf2, propsFiles, wfFiles, planner>>

\* generate_workflow: the inner transformation catalog and its write
generate_workflow_inner_tc ==
    /\ pc = "g_inner_tc"
    /\ inner_tc' = [exists |-> TRUE, entries |-> GenInnerTransformations]
    /\ LogWrite(INNER_TC_FILE, "tc")
    /\ pc' = "g_rc"
    /\ UNCHANGED <<script, args, curlBound, err, dagfile, props, sc, tc, rc,
                   inner_rc, wf, wf2, propsFiles, wfFiles, planner>>

\* generate_workflow: the outer replica catalog, rc.write()
generate_workflow_rc ==
    /\ pc = "g_rc"
    /\ rc' = [exists |-> TRUE, entries |-> GenReplicas]
    /\ LogWrite(RC_FILE, "rc")
    /\ pc' = "g_wf2"
    /\ UNCHANGED <<script, args, curlBound, err, dagfile, props, sc, tc,
                   inner_tc, inner_rc, wf, wf2, propsFiles, wfFiles, planner>>

\* generate_workflow: wf = Workflow("hierarchical-workflow"); wf2 =
\* Workflow("blackdiamond").add_jobs(...).write("inner_diamond_workflow.yml")
generate_workflow_wf2 ==
    /\ pc = "g_wf2"
    /\ wf' = Workflow("hierarchical-workflow")
    /\ wf2' = InferDependencies(
                 [Workflow("blackdiamond") EXCEPT !.jobs = InnerJobs])
    /\ wfFiles' = [wfFiles EXCEPT ![INNER_WORKFLOW_FILE] = wf2']
    /\ LogWrite(INNER_WORKFLOW_FILE, "wf")
    /\ pc' = "g_add_jobs"
    /\ UNCHANGED <<script, args, curlBound, err, dagfile, props, sc, tc,
                   inner_tc, rc, inner_rc, propsFiles, planner>>

\* generate_workflow: wf.add_jobs(curl_job, diamond_wf_job, wc_job)
generate_workflow_add_jobs ==
    /\ pc = "g_add_jobs"
    /\ wf' = [wf EXCEPT !.jobs = {GenCurlJob, GenSubWorkflow, GenWcJob}]
    /\ pc' = "g_dep_curl"
    /\ UNCHANGED <<script, args, curlBound, err, dagfile, props, sc, tc,
                   inner_tc, rc, inner_rc, wf2, log, propsFiles, wfFiles,
                   planner>>

\* generate_workflow: wf.add_dependency(curl_job, children=[diamond_wf_job])
generate_workflow_dep_curl ==
    /\ pc = "g_dep_curl"
    /\ wf' = add_dependency(wf, GenCurlJob.id, GenSubWorkflow.id)
    /\ pc' = "g_dep_wc"
    /\ UNCHANGED <<script, args, curlBound, err, dagfile, props, sc, tc,
                   inner_tc, rc, inner_rc, wf2, log, propsFiles, wfFiles,
                   planner>>

\* generate_workflow: wf.add_dependency(diamond_wf_job, children=[wc_job])
generate_workflow_dep_wc ==
    /\ pc = "g_dep_wc"
    /\ wf' = add_dependency(wf, GenSubWorkflow.id, GenWcJob.id)
    /\ pc' = "g_write"
    /\ UNCHANGED <<script, args, curlBound, err, dagfile, props, sc, tc,
                   inner_tc, rc, inner_rc, wf2, log, propsFiles, wfFiles,
                   planner>>

\* generate_workflow: wf.write("workflow.yml"), the last statement of the run
generate_workflow_write ==
    /\ pc = "g_write"
    /\ wf' = InferDependencies(wf)
    /\ wfFiles' = [wfFiles EXCEPT ![WORKFLOW_FILE] = wf']
    /\ LogWrite(WORKFLOW_FILE, "wf")
    /\ pc' = "done"
    /\ UNCHANGED <<script, args, curlBound, err, dagfile, props, sc, tc,
                   inner_tc, rc, inner_rc, wf2, propsFiles, planner>>

(* --------------------------- specification ------------------------------ *)

Next ==
    \/ PipelineWorkflow_init
    \/ create_sites_catalog
    \/ skip_sites_catalog
    \/ create_pegasus_properties_outer
    \/ create_pegasus_properties_inner
    \/ create_transformation_catalog
    \/ create_workflow_inner_rc
    \/ create_workflow_rc
    \/ create_workflow_curl_job
    \/ create_workflow_add_jobs
    \/ create_workflow_add_dependency
    \/ write_sc
    \/ write_props
    \/ write_tc
    \/ write_wf
    \/ write_plan
    \/ generate_workflow_props
    \/ generate_workflow_props_inner
    \/ generate_workflow_sites
    \/ generate_workflow_tc
    \/ generate_workflow_inner_tc
    \/ generate_workflow_rc
    \/ generate_workflow_wf2
    \/ generate_workflow_add_jobs
    \/ generate_workflow_dep_curl
    \/ generate_workflow_dep_wc
    \/ generate_workflow_write

Spec == Init /\ [][Next]_vars

TypeOK ==
    /\ script \in {"main", "gen"}
    /\ args \in ArgSpace
    /\ err \in {"none", "NameError", "DuplicateError"}
    /\ planner \in [invoked : BOOLEAN, submit : BOOLEAN]

(* ------------------------- auxiliary notions ---------------------------- *)

\* the run has ended, normally or by an uncaught exception
Ended == pc \in {"done", "aborted"}

\* PipelineWorkflow.create_workflow has returned
CreateWorkflowReturned ==
    /\ script = "main"
    /\ pc \in {"m_write_sc", "m_write_props", "m_write_tc", "m_write_wf",
               "m_plan", "done"}

\* position of an artifact kind in the sequencing contract of the driver
StageRank(kind) ==
    CASE kind = "sites" -> 1
      [] kind = "props_outer" -> 2
      [] kind = "props_inner" -> 3
      [] kind = "tc" -> 4
      [] kind = "rc" -> 5
      [] kind = "wf" -> 6

\* the writes of catalog and workflow artifacts, in order (f.a is input
\* data, not an artifact of the contract)
ArtifactLog == SelectSeq(log, LAMBDA w : w.kind # "data")

JobIds(w) == {j.id : j \in w.jobs}

\* the orders in which every job of w runs once
Orders(w) ==
    {s \in [1..Cardinality(JobIds(w)) -> JobIds(w)] :
        \A i, j \in DOMAIN s : i # j => s[i] # s[j]}

\* the execution orders that respect every dependency edge of w
ExecutionOrders(w) ==
    {s \in Orders(w) :
        \A e \in w.edges : \A i, j \in DOMAIN s :
            (s[i] = e[1] /\ s[j] = e[2]) => i < j}

Acyclic(w) == ExecutionOrders(w) # {}

Parents(w, id) == {e[1] : e \in {x \in w.edges : x[2] = id}}

Lfns(catalog) == {r.lfn : r \in catalog.entries}

\* the value the nested properties file gives to a key
NestedProperty(key) ==
    {kv[2] : kv \in {x \in propsFiles[INNER_PROPS_FILE] : x[1] = key}}

(* ------------------------------- claims --------------------------------- *)

\* C1 (as claimed): in every run the artifacts are written in the order
\* site catalog, outer properties, nested properties, transformation
\* catalogs, replica catalogs, workflow graph: no artifact of a later stage
\* is written before an artifact of an earlier stage, and the planner is
\* invoked, with submit=true, only after all of them.
C1_StagesInOrder ==
    /\ \A i, j \in DOMAIN ArtifactLog :
          i < j => StageRank(ArtifactLog[i].kind) <= StageRank(ArtifactLog[j].kind)
    /\ planner.invoked =>
          /\ planner.submit
          /\ {PROPS_FILE, INNER_PROPS_FILE, TC_FILE, RC_FILE, WORKFLOW_FILE}
                \subseteq Written

\* C2 (as claimed): every run of the entry point of
\* main_workflow_generator.py in which no library call raises ends with all
\* catalog artifacts and the workflow artifact written and the planner
\* invoked with the submit flag set.
C2_MainRunReachesPlanner ==
    (script = "main" /\ Ended /\ err # "DuplicateError") =>
        /\ planner.invoked /\ planner.submit
        /\ {PROPS_FILE, INNER_PROPS_FILE, TC_FILE, INNER_TC_FILE, RC_FILE,
            INNER_RC_FILE, WORKFLOW_FILE} \subseteq Written
        /\ (sc.exists => SITES_FILE \in Written)

C4_SubWorkflowInputsCoverCatalogs ==
    \A j \in wf.jobs :
        j.type = "pegasusWorkflow" =>
            ({INNER_PROPS_FILE, SITES_FILE} \cup NestedProperty(TC_KEY)
                \cup NestedProperty(RC_KEY)) \subseteq j.inputs

C6_TransformationsOnExecutionSite ==
    \A j \in wf.jobs :
        j.type = "job" =>
            LET m == {t \in tc.entries : t.name = j.transformation}
            IN  /\ Cardinality(m) = 1
                /\ \A t \in m : t.site = args.execution_site_name

\* C7: in the outer workflow of each generator, every input of a node is an
\* output of another node of that workflow or has an entry in the outer
\* replica catalog of the run.
C7_InputsCovered ==
    \A j \in wf.jobs : \A f \in j.inputs :
        \/ \E k \in wf.jobs : k.id # j.id /\ f \in k.outputs
        \/ f \in Lfns(rc)

C7_Witness ==
    /\ script = "gen"
    /\ pc = "done"
    /\ \E j \in wf.jobs :
          /\ j.type = "pegasusWorkflow"
          /\ INNER_WORKFLOW_FILE \in j.inputs \cap Lfns(rc)
          /\ "pegasus.html" \in j.inputs \ Lfns(rc)

\* C8: the workflow written by generate_workflow has exactly the 3 nodes
\* curl, diamond_subworkflow, wc and exactly the 2 edges of the chain
\* curl -> diamond_subworkflow -> wc; the blackdiamond workflow written to
\* inner_diamond_workflow.yml has exactly 4 nodes forming a diamond: one
\* source preprocess, two findrange nodes whose only parent is the source,
\* one sink analyze whose parents are the two findrange nodes.
C8_ChainAndDiamond ==
    (script = "gen" /\ pc = "done") =>
        LET o == wfFiles[WORKFLOW_FILE]
            d == wfFiles[INNER_WORKFLOW_FILE]
            T(name) == {j.id : j \in {x \in d.jobs : x.transformation = name}}
        IN  /\ Cardinality(o.jobs) = 3
            /\ JobIds(o) = {GenCurlJob.id, "diamond_subworkflow", GenWcJob.id}
            /\ \E c, w \in o.jobs :
                  /\ c.transformation = "curl" /\ w.transformation = "wc"
                  /\ o.edges = {<<c.id, "diamond_subworkflow">>,
                                <<"diamond_subworkflow", w.id>>}
            /\ Cardinality(d.jobs) = 4
            /\ Cardinality(JobIds(d)) = 4
            /\ Cardinality(d.edges) = 4
            /\ Cardinality(T("preprocess")) = 1
            /\ Cardinality(T("findrange")) = 2
            /\ Cardinality(T("analyze")) = 1
            /\ \A p \in T("preprocess") : Parents(d, p) = {}
            /\ \A m \in T("findrange") : Parents(d, m) = T("preprocess")
            /\ \A a \in T("analyze") : Parents(d, a) = T("findrange")

C8_Witness ==
    /\ script = "gen"
    /\ pc = "done"
    /\ wfFiles[WORKFLOW_FILE].exists
    /\ wfFiles[INNER_WORKFLOW_FILE].exists
    /\ {WORKFLOW_FILE, INNER_WORKFLOW_FILE} \subseteq Written

\* C9 (as claimed): a run of workflow_generator.py that has written the
\* catalogs and workflow.yml does not end without having invoked the
\* planner.
C9_GenRunInvokesPlanner ==
    (script = "gen" /\ Ended /\ WORKFLOW_FILE \in Written) => planner.invoked

====
